---- MODULE Spec2Model ----
(***************************************************************************)
(* BoardTorrent (src/main.py): the web-mode resolution engine, the main    *)
(* window that owns the rule list and the settings dialog that edits it.   *)
(*                                                                         *)
(* Text is a sequence of pieces.  A comment and everything captured from   *)
(* it are sequences of one-character strings; a template literal is one    *)
(* piece (such as "https://x/") that never equals a comment character.     *)
(***************************************************************************)
EXTENDS Integers, Sequences, FiniteSets, TLC

\* ---------------------------------------------------------------- bounds

\* Longest comment, in characters.
MaxLen == 3

\* Longest rule list drawn for the resolver and kept by the settings dialog.
MaxModes == 2

\* ------------------------------------------------------------ text basics

\* Python's None where a string is optional (an active name, a combo datum).
None == "<None>"

Digits == {"1"}
Whitespace == {" "}
Chars == {"1", "a", " "}

\* Every comment of at most MaxLen characters.
Comments == UNION {[1..n -> Chars] : n \in 0..MaxLen}

SetMax(S) == CHOOSE x \in S : \A y \in S : y <= x

SetMin(S) == CHOOSE x \in S : \A y \in S : x <= y

\* str.strip(): leading and trailing whitespace removed.
Strip(s) ==
  LET keep == {i \in 1..Len(s) : s[i] \notin Whitespace}
  IN IF keep = {} THEN <<>> ELSE SubSeq(s, SetMin(keep), SetMax(keep))

\* --------------------------------------------------------- re: the patterns

\* The pattern sources of the model.  A compiled pattern is a sequence of
\* atoms: a character class repeated lo..hi times (many: no upper limit),
\* greedy, optionally a named group, the group optionally followed by "?".
PatTid == "(?P<tid>\\d+)"
PatOpt == "a(?P<tid>\\d)?"
PatStar == "(?P<tid>\\d*)"
PatDot == ".+"
PatEmpty == ""
PatBad == "("

Atom(cls, lo, hi, many, name, opt) ==
  [cls |-> cls, lo |-> lo, hi |-> hi, many |-> many, name |-> name, opt |-> opt]

\* re.compile(pattern): the atoms, or re.error.
Compile(pattern) ==
  CASE pattern = PatTid -> [ok |-> TRUE, atoms |-> <<Atom(Digits, 1, 1, TRUE, "tid", FALSE)>>]
    [] pattern = PatOpt -> [ok |-> TRUE, atoms |-> <<Atom({"a"}, 1, 1, FALSE, "", FALSE),
                                                     Atom(Digits, 1, 1, FALSE, "tid", TRUE)>>]
    [] pattern = PatStar -> [ok |-> TRUE, atoms |-> <<Atom(Digits, 0, 0, TRUE, "tid", FALSE)>>]
    [] pattern = PatDot -> [ok |-> TRUE, atoms |-> <<Atom(Chars, 1, 1, TRUE, "", FALSE)>>]
    [] pattern = PatEmpty -> [ok |-> TRUE, atoms |-> <<>>]
    [] OTHER -> [ok |-> FALSE, atoms |-> <<>>]

\* The longest run of characters of atom a's class at offset pos of s.
Run(a, s, pos) ==
  SetMax({n \in 0..(Len(s) - pos) :
            /\ a.many \/ n <= a.hi
            /\ \A i \in 1..n : s[pos + i] \in a.cls})

NoMatch == [ok |-> FALSE, start |-> 0, end |-> 0, caps |-> <<>>]

RECURSIVE MatchAtoms(_, _, _, _)
RECURSIVE TryLen(_, _, _, _, _)

\* Atoms k.. of the pattern matched at offset pos of s, backtracking: the
\* first success in the order greedy repetition tries them.
MatchAtoms(atoms, k, s, pos) ==
  IF k > Len(atoms)
  THEN [ok |-> TRUE, start |-> pos, end |-> pos, caps |-> <<>>]
  ELSE TryLen(atoms, k, s, pos, Run(atoms[k], s, pos))

\* Atom k taking n characters, then fewer; an optional group is skipped last.
TryLen(atoms, k, s, pos, n) ==
  IF n < atoms[k].lo
  THEN IF atoms[k].opt
       THEN LET r == MatchAtoms(atoms, k + 1, s, pos)
            IN IF r.ok
               THEN [r EXCEPT !.start = pos,
                              !.caps = <<[part |-> FALSE, txt |-> <<>>]>> \o r.caps]
               ELSE NoMatch
       ELSE NoMatch
  ELSE LET r == MatchAtoms(atoms, k + 1, s, pos + n)
       IN IF r.ok
          THEN [r EXCEPT !.start = pos,
                         !.caps = <<[part |-> TRUE, txt |-> SubSeq(s, pos + 1, pos + n)]>>
                                  \o r.caps]
          ELSE TryLen(atoms, k, s, pos, n - 1)

RECURSIVE SearchFrom(_, _, _)

\* regex.search(s): the match at the leftmost offset that has one.
SearchFrom(atoms, s, pos) ==
  IF pos > Len(s) THEN NoMatch
  ELSE LET r == MatchAtoms(atoms, 1, s, pos)
       IN IF r.ok THEN r ELSE SearchFrom(atoms, s, pos + 1)

Search(atoms, s) == SearchFrom(atoms, s, 0)

\* match.group(0)
Group0(s, m) == SubSeq(s, m.start + 1, m.end)

\* The names of match.groupdict().
GroupNames(atoms) == {atoms[k].name : k \in {j \in 1..Len(atoms) : atoms[j].name # ""}}

\* match.groupdict()[name]: part is FALSE for Python's None.
GroupOf(atoms, m, name) ==
  m.caps[CHOOSE k \in 1..Len(atoms) : atoms[k].name = name]

\* ------------------------------------------------------- str.format(**ctx)

\* A template is a sequence of tokens: literal text, a replacement field
\* {name} ("" for the auto-numbered {} and "0" for {0}), or a lone brace.
Lit(text) == [k |-> "lit", v |-> text]
Field(name) == [k |-> "field", v |-> name]
LBrace == [k |-> "lbrace", v |-> "{"]
RBrace == [k |-> "rbrace", v |-> "}"]

TplValue == <<Field("value")>>
TplTid == <<Lit("https://x/"), Field("tid")>>
TplHost == <<Lit("https://x/"), Field("value")>>
TplExtra == <<Field("tid"), Field("extra")>>
TplAuto == <<Field("")>>
TplRBrace == <<Field("value"), RBrace>>
TplBlank == <<>>
TplSpace == <<Lit(" ")>>

\* The template of a rule definition that has no "template" key.
TplAbsent == <<[k |-> "absent", v |-> ""]>>

\* A field that str.format looks up in the positional arguments.
IsPositional(name) == name \in {"", "0"}

Formatted(s) == [kind |-> "str", s |-> s, exc |-> ""]
Raised(exc) == [kind |-> "raise", s |-> <<>>, exc |-> exc]
Nothing == [kind |-> "none", s |-> <<>>, exc |-> ""]

RECURSIVE FormatFrom(_, _, _, _)

\* template.format(**ctx), left to right from token i: the text, or the
\* exception of the first token that fails.
FormatFrom(template, i, ctx, acc) ==
  IF i > Len(template) THEN Formatted(acc)
  ELSE LET t == template[i]
       IN CASE t.k = "lit" -> FormatFrom(template, i + 1, ctx, Append(acc, t.v))
            [] t.k = "field" ->
                 IF IsPositional(t.v) THEN Raised("IndexError")
                 ELSE IF t.v \notin DOMAIN ctx THEN Raised("KeyError")
                 ELSE FormatFrom(template, i + 1, ctx, acc \o ctx[t.v])
            [] OTHER -> Raised("ValueError")

Format(template, ctx) == FormatFrom(template, 1, ctx, <<>>)

\* ------------------------------------------------------------------ WebMode

\* The categories entry of a rule definition: the key may be absent.
NoCategories == [present |-> FALSE, list |-> <<>>]
Categories(list) == [present |-> TRUE, list |-> list]

\* A rule definition of the configuration document (a dict of web_modes).
ModeDict(name, pattern, template, cookie, categories) ==
  [name |-> name, pattern |-> pattern, template |-> template,
   description |-> "", cookie |-> cookie, categories |-> categories]

\* Whether WebMode(**d) constructs: template is a required argument, and
\* __post_init__ compiles the pattern.
Constructs(d) == d.template # TplAbsent /\ Compile(d.pattern).ok

\* The exception of a WebMode(**d) that does not construct.
ConstructError(d) == IF d.template = TplAbsent THEN "TypeError" ELSE "re.error"

\* What the exception of a WebMode(**d) that does not construct carries:
\* the TypeError of the dataclass __init__ its message, the re.error of
\* re.compile the compiler's reason and the pattern. Nothing wraps either on
\* the way out of the list comprehension, so neither has the rule's name.
MissingArgument == "__init__() missing 1 required positional argument: 'template'"
CompilerReason == "missing ), unterminated subpattern at position 0"
ConstructErrorTexts(d) ==
  IF d.template = TplAbsent THEN {MissingArgument} ELSE {CompilerReason, d.pattern}

\* WebMode(**d) after __post_init__: the compiled regex is kept, and an
\* absent categories list becomes the empty list.
MakeWebMode(d) ==
  [name |-> d.name, pattern |-> d.pattern, template |-> d.template,
   description |-> d.description, cookie |-> d.cookie,
   categories |-> IF d.categories.present THEN d.categories.list ELSE <<>>,
   regex |-> Compile(d.pattern).atoms]

\* MakeWebModes building the list back to front.
MakeWebModesReversed(dicts) ==
  [i \in 1..Len(dicts) |-> MakeWebMode(dicts[Len(dicts) + 1 - i])]

\* [WebMode(**mode) for mode in config["web_modes"]]
MakeWebModes(dicts) == [i \in 1..Len(dicts) |-> MakeWebMode(dicts[i])]

\* Context with every named group kept, whatever it captured.
ContextKeepEmpty(atoms, s, m) ==
  [n \in {"value"} \cup GroupNames(atoms) |->
     IF n = "value" THEN Group0(s, m) ELSE GroupOf(atoms, m, n).txt]

\* Context with value bound to the whole searched text instead of group(0).
ContextWholeText(atoms, s, m) ==
  LET named == {g \in GroupNames(atoms) :
                  GroupOf(atoms, m, g).part /\ GroupOf(atoms, m, g).txt # <<>>}
  IN [n \in {"value"} \cup named |-> IF n = "value" THEN s ELSE GroupOf(atoms, m, n).txt]

\* The context of a match: value, and every named group that is truthy.
Context(atoms, s, m) ==
  LET named == {g \in GroupNames(atoms) :
                  GroupOf(atoms, m, g).part /\ GroupOf(atoms, m, g).txt # <<>>}
  IN [n \in {"value"} \cup named |->
        IF n = "value" THEN Group0(s, m) ELSE GroupOf(atoms, m, n).txt]

\* ModeResolve searching the text as given, not stripped.
ModeResolveUntrimmed(mode, text) ==
  IF text = <<>> THEN Nothing
  ELSE LET m == Search(mode.regex, text)
       IN IF ~m.ok THEN Nothing
          ELSE LET template == IF mode.template = <<>> THEN TplValue ELSE mode.template
                   out == Format(template, Context(mode.regex, text, m))
               IN IF out.kind = "raise" /\ out.exc = "KeyError" THEN Nothing ELSE out

\* WebMode.resolve(text): the URL, None, or the exception format raised.
ModeResolve(mode, text) ==
  IF text = <<>> THEN Nothing
  ELSE LET s == Strip(text)
           m == Search(mode.regex, s)
       IN IF ~m.ok THEN Nothing
          ELSE LET template == IF mode.template = <<>> THEN TplValue ELSE mode.template
                   out == Format(template, Context(mode.regex, s, m))
               IN IF out.kind = "raise" /\ out.exc = "KeyError" THEN Nothing ELSE out

\* ------------------------------------------------------------- the program

VARIABLES
  config,            \* MainWindow.config: the configuration document in use
  saved,             \* the configuration document on disk (config.json)
  web_modes,         \* MainWindow.web_modes
  active_mode_name,  \* MainWindow.active_mode_name
  mode_selector,     \* the toolbar combo: its data items and current index
  selected,          \* the torrent record of the tree's current item
  web_view,          \* what the embedded browser was last told to show
  cookie_store,      \* the cookies handed to the browser profile
  browser_calls,     \* the calls the last _update_web_view made on the browser
  unhandled,         \* the exception or abort that ended the program, "" while none has
  dialog_open,       \* a SettingsDialog is executing
  dlg_config,        \* SettingsDialog._config
  dlg_modes,         \* SettingsDialog._modes
  last_mode_index,   \* SettingsDialog._last_mode_index
  mode_list_row,     \* SettingsDialog.mode_list.currentRow()
  form,              \* name_edit, pattern_edit, template_edit, desc_edit, cookie_edit
  default_mode_combo, \* the dialog's default-mode combo: items and index
  warning,           \* the QMessageBox.warning the last confirm showed, if any
  fetch_thread,      \* MainWindow.fetch_thread: a worker, or NoThread
  workers,           \* every FetchThread: how far run() is and what it emitted
  ui_queue,          \* emitted signals not yet delivered to the UI thread
  current_records,   \* MainWindow.current_records: the torrents last fetched
  tree,              \* MainWindow.tree: the torrents it shows
  tree_source,       \* the worker whose result filled the tree; NoThread when none did
  handled,           \* the workers whose signal a slot of the window has handled
  require_category_selection, \* MainWindow.require_category_selection
  selected_category, \* MainWindow.selected_category, the category selector's current data
  available_categories, \* MainWindow.available_categories
  connection_label,  \* MainWindow.connection_label
  ops                \* how many user operations have run

main_vars == <<config, saved, web_modes, active_mode_name, mode_selector>>
view_vars == <<selected, web_view, cookie_store, browser_calls, unhandled>>
dlg_vars == <<dialog_open, dlg_config, dlg_modes, last_mode_index, mode_list_row,
              form, default_mode_combo, warning>>
cat_vars == <<require_category_selection, selected_category, available_categories,
              connection_label>>
fetch_vars == <<fetch_thread, workers, ui_queue, current_records, tree, tree_source,
                handled, cat_vars>>
vars == <<main_vars, view_vars, dlg_vars, fetch_vars, ops>>

\* ------------------------------------------------- MainWindow: resolution

\* EffectiveModes putting the active rule in front without taking it out of
\* the rest.
EffectiveModesKeepDup(modes, active) ==
  IF modes = <<>> THEN <<>>
  ELSE IF active # None /\ active # ""
       THEN LET primary == SelectSeq(modes, LAMBDA m : m.name = active)
            IN IF primary # <<>> THEN primary \o modes ELSE modes
       ELSE modes

\* _get_effective_modes moving only the first rule of the active name to the
\* front and leaving the later rules of that name where they are.
EffectiveModesFirstOnly(modes, active) ==
  IF modes = <<>> THEN <<>>
  ELSE IF active # None /\ active # ""
       THEN LET hits == {i \in 1..Len(modes) : modes[i].name = active}
            IN IF hits # {}
               THEN LET k == SetMin(hits)
                    IN <<modes[k]>> \o SubSeq(modes, 1, k - 1) \o SubSeq(modes, k + 1, Len(modes))
               ELSE modes
       ELSE modes

\* MainWindow._get_effective_modes()
EffectiveModes(modes, active) ==
  IF modes = <<>> THEN <<>>
  ELSE IF active # None /\ active # ""
       THEN LET primary == SelectSeq(modes, LAMBDA m : m.name = active)
                others == SelectSeq(modes, LAMBDA m : m.name # active)
            IN IF primary # <<>> THEN primary \o others ELSE modes
       ELSE modes

NotFound == [kind |-> "none", url |-> <<>>, pos |-> 0, exc |-> ""]

RECURSIVE ResolveFromLast(_, _, _)

\* ResolveFrom with the loop keeping the last truthy URL instead of
\* returning at the first.
ResolveFromLast(modes, i, comment) ==
  IF i > Len(modes) THEN NotFound
  ELSE LET resolved == ModeResolve(modes[i], comment)
           later == ResolveFromLast(modes, i + 1, comment)
       IN CASE resolved.kind = "raise" ->
                 [kind |-> "raise", url |-> <<>>, pos |-> i, exc |-> resolved.exc]
            [] later.kind # "none" -> later
            [] resolved.kind = "str" /\ resolved.s # <<>> ->
                 [kind |-> "found", url |-> resolved.s, pos |-> i, exc |-> ""]
            [] OTHER -> NotFound

RECURSIVE ResolveFrom(_, _, _)

\* The loop of _resolve_comment_url from position i of the effective list:
\* the first truthy URL with the position of its rule, (None, None), or
\* the exception that left mode.resolve.
ResolveFrom(modes, i, comment) ==
  IF i > Len(modes) THEN NotFound
  ELSE LET resolved == ModeResolve(modes[i], comment)
       IN CASE resolved.kind = "raise" ->
                 [kind |-> "raise", url |-> <<>>, pos |-> i, exc |-> resolved.exc]
            [] resolved.kind = "str" /\ resolved.s # <<>> ->
                 [kind |-> "found", url |-> resolved.s, pos |-> i, exc |-> ""]
            [] OTHER -> ResolveFrom(modes, i + 1, comment)

\* Resolve beginning the loop at the second rule.
ResolveSkippingFirst(comment, modes) == ResolveFrom(modes, 2, comment)

\* Resolve(comment, orderedRules) of the specification.
Resolve(comment, modes) == ResolveFrom(modes, 1, comment)

\* MainWindow._resolve_comment_url(comment)
ResolveCommentUrl(modes, active, comment) ==
  Resolve(comment, EffectiveModes(modes, active))

\* ----------------------------------------------------- MainWindow: cookies

RECURSIVE SplitOn(_, _)

\* str.split(sep)
SplitOn(s, sep) ==
  LET at == {i \in 1..Len(s) : s[i] = sep}
  IN IF at = {} THEN <<s>>
     ELSE <<SubSeq(s, 1, SetMin(at) - 1)>>
          \o SplitOn(SubSeq(s, SetMin(at) + 1, Len(s)), sep)

\* NameValue splitting at the last "=" of the part.
NameValueAtLast(part) ==
  LET eq == SetMax({i \in 1..Len(part) : part[i] = "="})
  IN [name |-> Strip(SubSeq(part, 1, eq - 1)),
      value |-> Strip(SubSeq(part, eq + 1, Len(part)))]

\* part.split("=", 1) of a part that holds "=", both sides stripped.
NameValue(part) ==
  LET eq == SetMin({i \in 1..Len(part) : part[i] = "="})
  IN [name |-> Strip(SubSeq(part, 1, eq - 1)),
      value |-> Strip(SubSeq(part, eq + 1, Len(part)))]

RECURSIVE PairsOf(_, _)

\* The loop of _apply_mode_cookie over the parts from position i.
PairsOf(parts, i) ==
  IF i > Len(parts) THEN <<>>
  ELSE LET part == Strip(parts[i])
       IN IF part = <<>> \/ \A j \in 1..Len(part) : part[j] # "="
          THEN PairsOf(parts, i + 1)
          ELSE <<NameValue(part)>> \o PairsOf(parts, i + 1)

\* The (name, value) pairs _apply_mode_cookie makes of a cookie string.
ParseCookie(cookie) ==
  LET cookie_string == Strip(cookie)
  IN IF cookie_string = <<>> THEN <<>> ELSE PairsOf(SplitOn(cookie_string, ";"), 1)

\* QUrl(url).host()
UrlHost(url) == IF url # <<>> /\ url[1] = "https://x/" THEN "x" ELSE ""

RECURSIVE SetCookies(_, _, _, _)

\* store.setCookie for the pairs from position i: a cookie replaces the one
\* of the same name and domain.
SetCookies(store, pairs, i, host) ==
  IF i > Len(pairs) THEN store
  ELSE LET c == [name |-> pairs[i].name, value |-> pairs[i].value, domain |-> host]
           kept == {o \in store : ~(o.name = c.name /\ o.domain = c.domain)}
       IN SetCookies(kept \cup {c}, pairs, i + 1, host)

\* MainWindow._apply_mode_cookie(mode, url)
ApplyModeCookie(store, mode, url) ==
  SetCookies(store, ParseCookie(mode.cookie), 1, UrlHost(url))

\* A call on the embedded browser: store.setCookie(cookie, qurl) with the
\* cookie's name, value and domain, web_view.load(url), or web_view.setHtml.
Call(op, name, value, domain, url) ==
  [op |-> op, name |-> name, value |-> value, domain |-> domain, url |-> url]

\* The setCookie calls of _apply_mode_cookie(mode, url), in order.
CookieCalls(mode, url) ==
  LET pairs == ParseCookie(mode.cookie)
  IN [i \in 1..Len(pairs) |->
        Call("setCookie", pairs[i].name, pairs[i].value, UrlHost(url), <<>>)]

\* LoadCalls with the load issued before the cookies are set.
LoadCallsFirst(mode, url) ==
  <<Call("load", <<>>, <<>>, "", url)>> \o CookieCalls(mode, url)

\* The browser calls of _update_web_view for a resolved URL and its rule.
LoadCalls(mode, url) ==
  CookieCalls(mode, url) \o <<Call("load", <<>>, <<>>, "", url)>>

SetHtmlCall == Call("setHtml", <<>>, <<>>, "", <<>>)

\* ---------------------------------------------------- MainWindow: the view

NoRecord == [present |-> FALSE, comment |-> <<>>, category |-> ""]
Record(comment, category) == [present |-> TRUE, comment |-> comment, category |-> category]

HomePage == [kind |-> "home", url |-> <<>>, comment |-> <<>>]

\* MainWindow._update_web_view(record) under the given rule list and active
\* name: the URL is loaded after the winner's cookies are set, the diagnostic
\* page is shown when nothing resolves, and an exception leaves the slot.
UpdateWebView(record, modes, active) ==
  IF ~record.present
  THEN /\ web_view' = HomePage
       /\ browser_calls' = <<SetHtmlCall>>
       /\ UNCHANGED <<cookie_store, unhandled>>
  ELSE LET res == ResolveCommentUrl(modes, active, record.comment)
       IN CASE res.kind = "raise" ->
                 /\ unhandled' = res.exc
                 /\ browser_calls' = <<>>
                 /\ UNCHANGED <<web_view, cookie_store>>
            [] res.kind = "found" ->
                 /\ cookie_store' = ApplyModeCookie(cookie_store,
                                      EffectiveModes(modes, active)[res.pos], res.url)
                 /\ browser_calls' = LoadCalls(EffectiveModes(modes, active)[res.pos], res.url)
                 /\ web_view' = [kind |-> "page", url |-> res.url, comment |-> record.comment]
                 /\ UNCHANGED unhandled
            [] OTHER ->
                 /\ web_view' = [kind |-> "nomatch", url |-> <<>>, comment |-> record.comment]
                 /\ browser_calls' = <<SetHtmlCall>>
                 /\ UNCHANGED <<cookie_store, unhandled>>

\* The main window takes input: no slot has died and no modal dialog runs.
MainIdle == unhandled = "" /\ ~dialog_open

\* MainWindow._on_selection_changed with a torrent item current.
SelectTorrent(record) ==
  /\ MainIdle
  /\ record \in tree
  /\ selected' = record
  /\ UpdateWebView(record, web_modes, active_mode_name)
  /\ UNCHANGED <<main_vars, dlg_vars, fetch_vars>>

\* MainWindow._on_selection_changed with a category item (or none) current.
SelectCategoryItem ==
  /\ MainIdle
  /\ selected.present
  /\ selected' = NoRecord
  /\ UNCHANGED <<web_view, cookie_store, browser_calls, unhandled, main_vars, dlg_vars,
                 fetch_vars>>

\* The combo a mode selector shows for a rule list: "auto" then every name;
\* the current index is that of the first item whose data is the active name.
ComboFor(names, current) ==
  LET items == <<None>> \o names
      hits == {i \in 1..Len(items) : items[i] = current}
  IN [items |-> items,
      index |-> IF current # None /\ current # "" /\ hits # {} THEN SetMin(hits) ELSE 1]

NamesOf(modes) == [i \in 1..Len(modes) |-> modes[i].name]

\* MainWindow._refresh_mode_selector()
RefreshModeSelector(modes, active) == ComboFor(NamesOf(modes), active)

\* MainWindow._on_mode_selector_changed: the user picks item i of the combo.
OnModeSelectorChanged(i) ==
  /\ MainIdle
  /\ i \in 1..Len(mode_selector.items)
  /\ i # mode_selector.index
  /\ mode_selector' = [mode_selector EXCEPT !.index = i]
  /\ active_mode_name' = mode_selector.items[i]
  /\ config' = [config EXCEPT !.active_web_mode = mode_selector.items[i]]
  /\ saved' = config'
  /\ IF selected.present
     THEN UpdateWebView(selected, web_modes, mode_selector.items[i])
     ELSE UNCHANGED <<web_view, cookie_store, browser_calls, unhandled>>
  /\ UNCHANGED <<web_modes, selected, dlg_vars, fetch_vars>>

\* ------------------------------------------------------------ FetchThread

\* How many fetch workers a run starts at most.
MaxWorkers == 3

WorkerIds == 1..MaxWorkers

\* MainWindow.fetch_thread = None
NoThread == 0

\* A FetchThread: categories is the argument it was built with (absent for
\* None, every category); state is
\* "unstarted", "running" (run() is in fetch_torrents), "emitted" (a signal
\* is out, run() has not returned) or "finished"; raised tells whether
\* fetch_torrents raised; data_ready and failed count the emissions of the
\* two signals.
Worker(categories, state, raised, ready, fail) ==
  [categories |-> categories, state |-> state, raised |-> raised,
   data_ready |-> ready, failed |-> fail]

Unstarted == Worker(NoCategories, "unstarted", FALSE, 0, 0)

\* QThread.isRunning()
IsRunning(w) == workers[w].state \in {"running", "emitted"}

\* The fetched torrent lists a worker may bring back.
FetchRecords == {Record(<<"1">>, "movie")}
FetchData == {{}, FetchRecords}

\* Emits with the success signal in a finally clause rather than in else.
EmitsBoth(raised) == IF raised THEN <<"failed", "data_ready">> ELSE <<"data_ready">>

\* FetchThread.run(): the signals it emits, by whether fetch_torrents raised.
Emits(raised) == IF raised THEN <<"failed">> ELSE <<"data_ready">>

\* How often signal sig is in the sequence sigs.
CountOf(sigs, sig) == Cardinality({i \in 1..Len(sigs) : sigs[i] = sig})

\* MainWindow._all_categories_value
AllCategories == "__ALL__"

\* What QbClient.list_categories() returns whenever it reaches qBittorrent.
ServerCategories == <<"movie">>

\* The texts of connection_label.
NotConnected == "not connected"
Connected == "connected"
ConnectionFailed == "connection failed"

\* The item data of category_selector as _refresh_category_selector fills it.
CategoryItems(require, available) ==
  (IF require THEN <<None>> ELSE <<>>) \o <<AllCategories>> \o available

\* MainWindow._refresh_category_selector(): selected_category afterwards,
\* the data of the item that is current once the combo is rebuilt.
RefreshCategorySelector(require, available, current) ==
  LET items == CategoryItems(require, available)
  IN IF current # None /\ \E i \in 1..Len(items) : items[i] = current
     THEN current
     ELSE items[1]

\* _should_block_fetch letting every request through.
ShouldBlockFetchNever(require, category) == FALSE

\* MainWindow._should_block_fetch()
ShouldBlockFetch(require, category) == require /\ category = None

\* MainWindow._get_selected_categories()
GetSelectedCategories(category) ==
  IF category \in {None, AllCategories} THEN NoCategories ELSE Categories(<<category>>)

\* MainWindow.refresh_data() called with require_category_selection =
\* require, selected_category = category and available_categories =
\* available; loaded tells whether _load_categories() reached qBittorrent.
RefreshData(loaded, require, category, available) ==
  IF fetch_thread # NoThread /\ IsRunning(fetch_thread)
  THEN /\ selected_category' = category
       /\ available_categories' = available
       /\ UNCHANGED <<fetch_thread, workers, connection_label, tree, tree_source, selected>>
  ELSE IF ~loaded
       THEN /\ connection_label' = ConnectionFailed
            /\ selected_category' = category
            /\ available_categories' = available
            /\ UNCHANGED <<fetch_thread, workers, tree, tree_source, selected>>
       ELSE LET current == IF ServerCategories # available
                           THEN RefreshCategorySelector(require, ServerCategories, category)
                           ELSE category
            IN /\ connection_label' = Connected
               /\ available_categories' = ServerCategories
               /\ selected_category' = current
               /\ IF ShouldBlockFetch(require, current)
                  THEN /\ tree' = {}
                       /\ tree_source' = NoThread
                       /\ selected' = NoRecord
                       /\ UNCHANGED <<fetch_thread, workers>>
                  ELSE /\ \E w \in WorkerIds : workers[w].state = "unstarted"
                       /\ LET w == SetMin({v \in WorkerIds : workers[v].state = "unstarted"})
                          IN /\ fetch_thread' = w
                             /\ workers' = [workers EXCEPT ![w] =
                                              Worker(GetSelectedCategories(current),
                                                     "running", FALSE, 0, 0)]
                       /\ UNCHANGED <<tree, tree_source, selected>>

\* The refresh action of the toolbar is triggered.
RefreshAction ==
  /\ MainIdle
  /\ \E loaded \in BOOLEAN :
       RefreshData(loaded, require_category_selection, selected_category,
                   available_categories)
  /\ UNCHANGED <<main_vars, web_view, cookie_store, browser_calls, unhandled, dlg_vars,
                 ui_queue, current_records, handled, require_category_selection>>

\* MainWindow._on_category_selector_changed: the user picks item i of the
\* category selector.
OnCategorySelectorChanged(i) ==
  /\ MainIdle
  /\ LET items == CategoryItems(require_category_selection, available_categories)
     IN /\ i \in 1..Len(items)
        /\ items[i] # selected_category
        /\ IF require_category_selection /\ items[i] = None
           THEN /\ selected_category' = items[i]
                /\ tree' = {}
                /\ tree_source' = NoThread
                /\ selected' = NoRecord
                /\ UNCHANGED <<fetch_thread, workers, available_categories, connection_label>>
           ELSE \E loaded \in BOOLEAN :
                  RefreshData(loaded, require_category_selection, items[i],
                              available_categories)
  /\ UNCHANGED <<main_vars, web_view, cookie_store, browser_calls, unhandled, dlg_vars,
                 ui_queue, current_records, handled, require_category_selection>>

\* FetchThread.run() of worker w up to its emit: fetch_torrents returns
\* data or raises, and the signal is queued for the UI thread.
WorkerReturns(w, raised, data) ==
  /\ unhandled = ""
  /\ workers[w].state = "running"
  /\ LET sigs == Emits(raised)
     IN /\ workers' = [workers EXCEPT ![w] =
                         Worker(workers[w].categories, "emitted", raised,
                                CountOf(sigs, "data_ready"), CountOf(sigs, "failed"))]
        /\ ui_queue' = ui_queue \o
                         [i \in 1..Len(sigs) |->
                            [signal |-> sigs[i], sender |-> w,
                             records |-> IF sigs[i] = "data_ready" THEN data ELSE {}]]
  /\ UNCHANGED <<main_vars, view_vars, dlg_vars, fetch_thread, current_records, tree,
                 tree_source, handled, cat_vars>>

\* run() of worker w returns: the thread is no longer running.
WorkerFinishes(w) ==
  /\ unhandled = ""
  /\ workers[w].state = "emitted"
  /\ workers' = [workers EXCEPT ![w].state = "finished"]
  /\ UNCHANGED <<main_vars, view_vars, dlg_vars, fetch_thread, ui_queue, current_records,
                 tree, tree_source, handled, cat_vars>>

\* MainWindow._on_data_ready(records) for the signal of worker sender: the
\* tree is rebuilt, which leaves no item current.
OnDataReady(records, sender) ==
  /\ fetch_thread' = NoThread
  /\ current_records' = records
  /\ tree' = records
  /\ tree_source' = sender
  /\ selected' = NoRecord

\* MainWindow._on_data_failed(message)
OnDataFailed ==
  /\ fetch_thread' = NoThread
  /\ UNCHANGED <<current_records, tree, tree_source, selected>>

\* The UI thread's event loop delivers the oldest queued signal to its slot.
DeliverCallback ==
  /\ unhandled = ""
  /\ ui_queue # <<>>
  /\ ui_queue' = Tail(ui_queue)
  /\ handled' = handled \cup {Head(ui_queue).sender}
  /\ IF Head(ui_queue).signal = "data_ready"
     THEN OnDataReady(Head(ui_queue).records, Head(ui_queue).sender)
     ELSE OnDataFailed
  /\ UNCHANGED <<main_vars, web_view, cookie_store, browser_calls, unhandled, dlg_vars,
                 workers, cat_vars>>

\* The slot's `self.fetch_thread = None` drops the last reference to a
\* thread object that is still running (the sender before its run() has
\* returned, or a newer worker when the signal is a replaced worker's):
\* destroying a running QThread may abort the process instead of going on
\* as DeliverCallback has it.
AbortInCallback ==
  /\ unhandled = ""
  /\ ui_queue # <<>>
  /\ fetch_thread # NoThread /\ IsRunning(fetch_thread)
  /\ ui_queue' = Tail(ui_queue)
  /\ fetch_thread' = NoThread
  /\ unhandled' = "abort"
  /\ UNCHANGED <<main_vars, selected, web_view, cookie_store, browser_calls, dlg_vars,
                 workers, current_records, tree, tree_source, handled, cat_vars>>

\* The oldest queued signal comes from a worker that fetch_thread no longer
\* names: its thread object has lost its last reference, and the signal may
\* go with it.
LoseCallback ==
  /\ unhandled = ""
  /\ ui_queue # <<>>
  /\ Head(ui_queue).sender # fetch_thread
  /\ ui_queue' = Tail(ui_queue)
  /\ UNCHANGED <<main_vars, view_vars, dlg_vars, fetch_thread, workers, current_records,
                 tree, tree_source, handled, cat_vars>>

\* The fetch state of a window without required category selection whose
\* first fetch, of every category, has delivered records.
Loaded(records) ==
  /\ fetch_thread = NoThread
  /\ workers = [w \in WorkerIds |->
                  IF w = 1 THEN Worker(NoCategories, "finished", FALSE, 1, 0) ELSE Unstarted]
  /\ ui_queue = <<>>
  /\ current_records = records
  /\ tree = records
  /\ tree_source = 1
  /\ handled = {1}
  /\ require_category_selection = FALSE
  /\ selected_category = AllCategories
  /\ available_categories = ServerCategories
  /\ connection_label = Connected

\* ------------------------------------------------------------ construction

EmptyForm ==
  [name |-> "", pattern |-> "", template |-> <<>>, description |-> "", cookie |-> <<>>]
NoWarning == [kind |-> "", name |-> ""]
EmptyConfig == [web_modes |-> <<>>, active_web_mode |-> None]

\* No SettingsDialog exists.
DialogClosed ==
  /\ dialog_open = FALSE
  /\ dlg_config = EmptyConfig
  /\ dlg_modes = <<>>
  /\ last_mode_index = -1
  /\ mode_list_row = -1
  /\ form = EmptyForm
  /\ default_mode_combo = ComboFor(<<>>, None)
  /\ warning = NoWarning

\* MainWindow.__init__(config) with config.json holding cfg.
MainInit(cfg) ==
  /\ \A i \in 1..Len(cfg.web_modes) : Constructs(cfg.web_modes[i])
  /\ config = cfg
  /\ saved = cfg
  /\ web_modes = MakeWebModes(cfg.web_modes)
  /\ active_mode_name = cfg.active_web_mode
  /\ mode_selector = RefreshModeSelector(MakeWebModes(cfg.web_modes), cfg.active_web_mode)
  /\ selected = NoRecord
  /\ web_view = HomePage
  /\ cookie_store = {}
  /\ browser_calls = <<SetHtmlCall>>
  /\ unhandled = ""
  /\ ops = 0
  /\ DialogClosed

\* ------------------------------------------- the resolver on bounded inputs

ResolvePatterns == {PatTid, PatOpt, PatStar, PatDot}
ResolveTemplates == {TplValue, TplTid, TplHost, TplExtra, TplAuto, TplRBrace}
ResolveDicts ==
  {ModeDict("R", p, t, <<>>, NoCategories) : p \in ResolvePatterns, t \in ResolveTemplates}
ResolveModeLists == UNION {[1..n -> ResolveDicts] : n \in 0..MaxModes}
ResolveRecords == {Record(c, "movie") : c \in Comments}

InitResolve ==
  \E dicts \in ResolveModeLists :
    /\ MainInit([web_modes |-> dicts, active_web_mode |-> None])
    /\ Loaded(ResolveRecords)

\* One resolution per drawn input: a torrent is selected in the fresh window.
NextResolve ==
  /\ \E r \in ResolveRecords : ~selected.present /\ SelectTorrent(r)
  /\ ops' = ops + 1

\* The resolver applied to every comment under every bounded rule list.
SpecResolve == InitResolve /\ [][NextResolve]_vars

\* --------------------------------------------------------- SettingsDialog

\* The names the dialog gives: "unnamed" stands for the source's label of a
\* rule whose name was left blank, "new mode N" for its name of an added rule.
Unnamed == "unnamed"
NewModeName(n) ==
  CASE n = 1 -> "new mode 1" [] n = 2 -> "new mode 2" [] n = 3 -> "new mode 3"
    [] n = 4 -> "new mode 4" [] OTHER -> "new mode N"

\* json.loads(json.dumps(config)): a document of its own, equal to config.
DeepCopy(cfg) ==
  [web_modes |-> [i \in 1..Len(cfg.web_modes) |->
                    [k \in DOMAIN cfg.web_modes[i] |-> cfg.web_modes[i][k]]],
   active_web_mode |-> cfg.active_web_mode]

\* MainConfigAfterEdit with the dialog editing the very dicts of the main
\* window's document.
MainConfigAliased(cfg, edited) == [cfg EXCEPT !.web_modes = edited]

\* The main window's document after the dialog has written `edited` into its
\* rule list: the dialog holds a deep copy, so the document is untouched.
MainConfigAfterEdit(cfg, edited) == cfg

\* The editor of the modes tab: the rule list, _last_mode_index, the list
\* widget's current row and the form.
Editor(modes, last, row, frm) == [modes |-> modes, last |-> last, row |-> row, form |-> frm]

\* SettingsDialog._load_mode_into_form(mode) for row `row` (None outside).
LoadedForm(modes, row) ==
  IF 0 <= row /\ row < Len(modes)
  THEN [name |-> modes[row + 1].name, pattern |-> modes[row + 1].pattern,
        template |-> IF modes[row + 1].template = TplAbsent THEN <<>>
                     ELSE modes[row + 1].template,
        description |-> modes[row + 1].description, cookie |-> modes[row + 1].cookie]
  ELSE EmptyForm

\* SettingsDialog._apply_current_mode_changes()
ApplyCurrentModeChanges(d) ==
  IF d.last < 0 \/ d.last >= Len(d.modes) THEN d
  ELSE [d EXCEPT !.modes[d.last + 1] =
          [@ EXCEPT !.name = IF d.form.name = "" THEN Unnamed ELSE d.form.name,
                    !.pattern = d.form.pattern,
                    !.template = IF d.form.template = <<>> THEN TplValue ELSE d.form.template,
                    !.description = d.form.description,
                    !.cookie = Strip(d.form.cookie)]]

\* SettingsDialog._on_mode_selected(row)
OnModeSelected(d, row) ==
  IF row = d.last THEN d
  ELSE LET applied == ApplyCurrentModeChanges(d)
       IN [applied EXCEPT !.last = row, !.form = LoadedForm(applied.modes, row)]

\* mode_list.setCurrentRow(row): currentRowChanged fires when the row changes.
SetCurrentRow(d, row) ==
  IF row = d.row THEN d ELSE OnModeSelected([d EXCEPT !.row = row], row)

\* SettingsDialog._reload_mode_list(): the list is rebuilt with signals
\* blocked (no row is current), then row 0 is made current.
ReloadModeList(d) ==
  IF Len(d.modes) > 0
  THEN [SetCurrentRow([d EXCEPT !.row = -1], 0) EXCEPT !.last = 0]
  ELSE [d EXCEPT !.row = -1, !.last = -1, !.form = EmptyForm]

\* SettingsDialog._refresh_default_mode_combo()
RefreshDefaultModeCombo(modes, cfg) == ComboFor(NamesOf(modes), cfg.active_web_mode)

\* ValidateModes that only asks for a pattern, without compiling it.
ValidateModesUncompiled(modes) ==
  LET bad == {i \in 1..Len(modes) : modes[i].pattern = ""}
  IN IF bad = {} THEN NoWarning
     ELSE [kind |-> "missing", name |-> modes[SetMin(bad)].name]

\* SettingsDialog._validate_modes(): the warning for the first rule without
\* a pattern or with one that does not compile, none when all pass.
ValidateModes(modes) ==
  LET bad == {i \in 1..Len(modes) : modes[i].pattern = "" \/ ~Compile(modes[i].pattern).ok}
  IN IF bad = {} THEN NoWarning
     ELSE [kind |-> IF modes[SetMin(bad)].pattern = "" THEN "missing" ELSE "invalid",
           name |-> modes[SetMin(bad)].name]

\* The editor of the open dialog.
Ed == Editor(dlg_modes, last_mode_index, mode_list_row, form)

\* The open dialog takes the editor d.
SetEditor(d) ==
  /\ dlg_modes' = d.modes
  /\ last_mode_index' = d.last
  /\ mode_list_row' = d.row
  /\ form' = d.form
  /\ config' = MainConfigAfterEdit(config, d.modes)

main_rest == <<saved, web_modes, active_mode_name, mode_selector, fetch_vars>>

\* MainWindow.open_settings up to dialog.exec(): SettingsDialog.__init__.
OpenSettings ==
  /\ MainIdle
  /\ dialog_open' = TRUE
  /\ dlg_config' = DeepCopy(config)
  /\ LET d == ReloadModeList(Editor(DeepCopy(config).web_modes, -1, -1, EmptyForm))
     IN /\ SetEditor(d)
        /\ default_mode_combo' = RefreshDefaultModeCombo(d.modes, DeepCopy(config))
  /\ warning' = NoWarning
  /\ UNCHANGED <<main_rest, view_vars>>

\* The user types into a field of the form.
EditName(v) ==
  /\ dialog_open /\ v # form.name
  /\ SetEditor([Ed EXCEPT !.form.name = v])
  /\ warning' = NoWarning
  /\ UNCHANGED <<main_rest, view_vars, dialog_open, dlg_config, default_mode_combo>>

EditPattern(v) ==
  /\ dialog_open /\ v # form.pattern
  /\ SetEditor([Ed EXCEPT !.form.pattern = v])
  /\ warning' = NoWarning
  /\ UNCHANGED <<main_rest, view_vars, dialog_open, dlg_config, default_mode_combo>>

EditTemplate(v) ==
  /\ dialog_open /\ v # form.template
  /\ SetEditor([Ed EXCEPT !.form.template = v])
  /\ warning' = NoWarning
  /\ UNCHANGED <<main_rest, view_vars, dialog_open, dlg_config, default_mode_combo>>

\* The user makes another row of the rule list current.
SelectModeRow(row) ==
  /\ dialog_open
  /\ 0 <= row /\ row < Len(dlg_modes) /\ row # mode_list_row
  /\ SetEditor(SetCurrentRow(Ed, row))
  /\ warning' = NoWarning
  /\ UNCHANGED <<main_rest, view_vars, dialog_open, dlg_config, default_mode_combo>>

\* SettingsDialog._add_mode()
AddMode ==
  /\ dialog_open
  /\ Len(dlg_modes) < MaxModes
  /\ LET applied == ApplyCurrentModeChanges(Ed)
         new_mode == ModeDict(NewModeName(Len(applied.modes) + 1), "", TplValue, <<>>,
                              NoCategories)
         reloaded == ReloadModeList([applied EXCEPT !.modes = Append(applied.modes, new_mode)])
         moved == SetCurrentRow(reloaded, Len(reloaded.modes) - 1)
         d == [moved EXCEPT !.last = moved.row]
     IN /\ SetEditor(d)
        /\ default_mode_combo' = RefreshDefaultModeCombo(d.modes, dlg_config)
  /\ warning' = NoWarning
  /\ UNCHANGED <<main_rest, view_vars, dialog_open, dlg_config>>

\* SettingsDialog._remove_mode()
RemoveMode ==
  /\ dialog_open
  /\ 0 <= mode_list_row /\ mode_list_row < Len(dlg_modes)
  /\ LET left == SubSeq(dlg_modes, 1, mode_list_row)
                 \o SubSeq(dlg_modes, mode_list_row + 2, Len(dlg_modes))
         d == ReloadModeList([Ed EXCEPT !.modes = left, !.last = -1])
     IN /\ SetEditor(d)
        /\ default_mode_combo' = RefreshDefaultModeCombo(d.modes, dlg_config)
  /\ warning' = NoWarning
  /\ UNCHANGED <<main_rest, view_vars, dialog_open, dlg_config>>

\* The user picks item i of the default-mode combo.
ChooseDefaultMode(i) ==
  /\ dialog_open
  /\ i \in 1..Len(default_mode_combo.items) /\ i # default_mode_combo.index
  /\ default_mode_combo' = [default_mode_combo EXCEPT !.index = i]
  /\ warning' = NoWarning
  /\ SetEditor(Ed)
  /\ UNCHANGED <<main_rest, view_vars, dialog_open, dlg_config>>

\* The dialog is gone.
CloseDialog ==
  /\ dialog_open' = FALSE
  /\ dlg_config' = EmptyConfig
  /\ dlg_modes' = <<>>
  /\ last_mode_index' = -1
  /\ mode_list_row' = -1
  /\ form' = EmptyForm
  /\ default_mode_combo' = ComboFor(<<>>, None)
  /\ warning' = NoWarning

\* MainWindow._apply_config_changes() on the document cfg: the rule list is
\* rebuilt, then the active name taken; a rule that does not construct
\* raises before either is assigned.
ApplyConfigChanges(cfg) ==
  IF \A i \in 1..Len(cfg.web_modes) : Constructs(cfg.web_modes[i])
  THEN /\ web_modes' = MakeWebModes(cfg.web_modes)
       /\ active_mode_name' = cfg.active_web_mode
       /\ mode_selector' = RefreshModeSelector(MakeWebModes(cfg.web_modes), cfg.active_web_mode)
       /\ \E loaded \in BOOLEAN :
            RefreshData(loaded, require_category_selection,
                        IF require_category_selection THEN None ELSE AllCategories, <<>>)
       /\ UNCHANGED unhandled
  ELSE /\ unhandled' = ConstructError(
                         cfg.web_modes[SetMin({i \in 1..Len(cfg.web_modes) :
                                                 ~Constructs(cfg.web_modes[i])})])
       /\ UNCHANGED <<web_modes, active_mode_name, mode_selector, fetch_thread, workers,
                      selected_category, available_categories, connection_label, tree,
                      tree_source, selected>>

\* The document SettingsDialog.accept() leaves in _config.
AcceptedConfig(modes, combo) ==
  [web_modes |-> modes, active_web_mode |-> combo.items[combo.index]]

\* SettingsDialog.accept(), and on success the rest of open_settings: the
\* form is applied and the rules validated; a failure shows the warning and
\* the dialog stays; otherwise the dialog's document becomes the main
\* window's, is saved, and the rule list and active name are rebuilt from it.
Accept ==
  /\ dialog_open
  /\ LET applied == ApplyCurrentModeChanges(Ed)
         verdict == ValidateModes(applied.modes)
     IN IF verdict.kind # ""
        THEN /\ SetEditor(applied)
             /\ warning' = verdict
             /\ UNCHANGED <<main_rest, selected, unhandled, dialog_open, dlg_config,
                            default_mode_combo>>
        ELSE /\ config' = AcceptedConfig(applied.modes, default_mode_combo)
             /\ saved' = AcceptedConfig(applied.modes, default_mode_combo)
             /\ ApplyConfigChanges(AcceptedConfig(applied.modes, default_mode_combo))
             /\ CloseDialog
             /\ UNCHANGED <<ui_queue, current_records, handled, require_category_selection>>
  /\ UNCHANGED <<web_view, cookie_store, browser_calls>>

\* QDialog.reject(): the dialog closes and open_settings does nothing more.
Reject ==
  /\ dialog_open
  /\ CloseDialog
  /\ config' = MainConfigAfterEdit(config, dlg_modes)
  /\ UNCHANGED <<main_rest, view_vars>>

\* ------------------------------------------------- the window on its own

\* Longest rule list of a window constructed without the dialog.
MaxOrder == 3

MovieCookie == <<"u", "=", "1">>
WindowNames == {"A", "B"}
WindowDicts ==
  {ModeDict(n, pt[1], pt[2], ck[1], ck[2]) :
     n \in WindowNames,
     pt \in {<<PatTid, TplTid>>, <<PatEmpty, TplHost>>},
     ck \in {<<<<>>, NoCategories>>, <<MovieCookie, Categories(<<"movie">>)>>}}
WindowModeLists == UNION {[1..n -> WindowDicts] : n \in 0..MaxOrder}
WindowActives == {None, "A", "B", "Z"}
WindowRecords == {Record(c, g) : c \in {<<"1">>, <<"a">>}, g \in {"movie", "tv"}}

InitWindow ==
  \E dicts \in WindowModeLists, active \in WindowActives :
    /\ MainInit([web_modes |-> dicts, active_web_mode |-> active])
    /\ Loaded(WindowRecords)

NextWindow ==
  /\ \/ \E r \in WindowRecords : SelectTorrent(r)
     \/ SelectCategoryItem
     \/ \E i \in 1..(MaxOrder + 2) : OnModeSelectorChanged(i)
  /\ UNCHANGED ops

\* The main window with no settings dialog opened.
SpecWindow == InitWindow /\ [][NextWindow]_vars

\* ------------------------------------------------------- the whole program

\* How many user operations a run holds.
MaxOps == 6

FormNames == {"A", "B", ""}
FormPatterns == {PatTid, PatBad, ""}
FormTemplates == {TplTid, <<>>}
ProgramRecords == FetchRecords

ProgramConfigs ==
  {[web_modes |-> <<ModeDict("A", PatTid, TplTid, <<>>, NoCategories)>>,
    active_web_mode |-> None],
   [web_modes |-> <<ModeDict("A", PatDot, TplHost, MovieCookie, Categories(<<"movie">>)),
                    ModeDict("B", PatTid, TplTid, <<>>, NoCategories)>>,
    active_web_mode |-> "B"]}

Init == \E cfg \in ProgramConfigs : MainInit(cfg) /\ Loaded(ProgramRecords)

Next ==
  /\ ops < MaxOps
  /\ ops' = ops + 1
  /\ \/ \E r \in ProgramRecords : SelectTorrent(r)
     \/ SelectCategoryItem
     \/ \E i \in 1..(MaxModes + 1) : OnModeSelectorChanged(i)
     \/ OpenSettings
     \/ \E v \in FormNames : EditName(v)
     \/ \E v \in FormPatterns : EditPattern(v)
     \/ \E v \in FormTemplates : EditTemplate(v)
     \/ \E row \in 0..(MaxModes - 1) : SelectModeRow(row)
     \/ AddMode
     \/ RemoveMode
     \/ \E i \in 1..(MaxModes + 1) : ChooseDefaultMode(i)
     \/ Accept
     \/ Reject
     \/ RefreshAction
     \/ \E w \in WorkerIds, raised \in BOOLEAN, data \in FetchData :
          (raised => data = {}) /\ WorkerReturns(w, raised, data)
     \/ \E w \in WorkerIds : WorkerFinishes(w)
     \/ DeliverCallback
     \/ AbortInCallback
     \/ LoseCallback
     \/ \E i \in 1..(Len(ServerCategories) + 2) : OnCategorySelectorChanged(i)

Spec == Init /\ [][Next]_vars

\* -------------------------------------------------- the fetch on its own

\* The configuration the fetch is studied under: one rule, no active name.
FetchConfig == CHOOSE cfg \in ProgramConfigs : cfg.active_web_mode = None

\* MainWindow.__init__ from _setup_ui on: the category selector is built
\* and leaves selected_category at its first item, _load_categories() runs
\* (first tells whether it reached qBittorrent), and refresh_data() runs it
\* again (second) and starts the first worker unless a category has to be
\* selected first.
InitFetch ==
  /\ MainInit(FetchConfig)
  /\ \E require \in BOOLEAN, first \in BOOLEAN, second \in BOOLEAN :
       LET category == IF require THEN None ELSE AllCategories
           started == second /\ ~ShouldBlockFetch(require, category)
       IN /\ require_category_selection = require
          /\ selected_category = category
          /\ available_categories = (IF first \/ second THEN ServerCategories ELSE <<>>)
          /\ connection_label = (IF second THEN Connected ELSE ConnectionFailed)
          /\ fetch_thread = (IF started THEN 1 ELSE NoThread)
          /\ workers = [w \in WorkerIds |->
                          IF started /\ w = 1
                          THEN Worker(GetSelectedCategories(category), "running", FALSE, 0, 0)
                          ELSE Unstarted]
  /\ ui_queue = <<>>
  /\ current_records = {}
  /\ tree = {}
  /\ tree_source = NoThread
  /\ handled = {}

NextFetch ==
  /\ \/ RefreshAction
     \/ \E i \in 1..(Len(ServerCategories) + 2) : OnCategorySelectorChanged(i)
     \/ \E w \in WorkerIds, raised \in BOOLEAN, data \in FetchData :
          (raised => data = {}) /\ WorkerReturns(w, raised, data)
     \/ \E w \in WorkerIds : WorkerFinishes(w)
     \/ DeliverCallback
     \/ AbortInCallback
     \/ LoseCallback
     \/ \E r \in FetchRecords : SelectTorrent(r)
     \/ SelectCategoryItem
  /\ UNCHANGED ops

\* Refresh requests, workers and their callbacks, from a fresh window.
SpecFetch == InitFetch /\ [][NextFetch]_vars

\* SpecFetch with the scheduling the program runs under: a started thread is
\* run by the operating system until fetch_torrents returns or raises and
\* then until run() returns, and the UI thread's event loop keeps taking the
\* oldest queued signal.
SpecFetchFair ==
  /\ SpecFetch
  /\ WF_vars(/\ \E w \in WorkerIds, raised \in BOOLEAN, data \in FetchData :
                  (raised => data = {}) /\ WorkerReturns(w, raised, data)
             /\ UNCHANGED ops)
  /\ WF_vars((\E w \in WorkerIds : WorkerFinishes(w)) /\ UNCHANGED ops)
  /\ WF_vars(DeliverCallback /\ UNCHANGED ops)

\* -------------------------------------------- the cookies on bounded inputs

\* Longest cookie string drawn character by character.
MaxCookie == 4

CookieChars == {"u", "1", "=", ";", " "}

\* "uid=1; passkey=abc;" and "garbage;;  ", names and values as single pieces.
CookieUidPasskey == <<"uid", "=", "1", ";", " ", "passkey", "=", "abc", ";">>
CookieGarbage == <<"garbage", ";", ";", " ", " ">>

CookieStrings ==
  UNION {[1..n -> CookieChars] : n \in 0..MaxCookie} \cup {CookieUidPasskey, CookieGarbage}

\* The cookie of the rule behind the one under test.
OtherCookie == <<"p", "=", "2">>

CookieRecords == {Record(<<"1">>, "movie"), Record(<<"a">>, "movie")}

\* Rule A resolves comments with a digit and carries the drawn cookie; rule
\* B, behind it, resolves every other comment and carries OtherCookie.
InitCookie ==
  \E c \in CookieStrings :
    /\ MainInit([web_modes |-> <<ModeDict("A", PatTid, TplTid, c, NoCategories),
                                 ModeDict("B", PatDot, TplHost, OtherCookie, NoCategories)>>,
                 active_web_mode |-> None])
    /\ Loaded(CookieRecords)

NextCookie ==
  /\ \/ \E r \in CookieRecords : SelectTorrent(r)
     \/ SelectCategoryItem
  /\ UNCHANGED ops

\* Torrents selected under a rule with every bounded cookie string.
SpecCookie == InitCookie /\ [][NextCookie]_vars

\* ------------------------------------------ templates left out or blank

\* MainWindow(config) raises on the first rule that does not construct: no
\* window comes up.
Crashed(cfg) ==
  /\ config = cfg
  /\ saved = cfg
  /\ web_modes = <<>>
  /\ active_mode_name = None
  /\ mode_selector = ComboFor(<<>>, None)
  /\ selected = NoRecord
  /\ web_view = HomePage
  /\ cookie_store = {}
  /\ browser_calls = <<>>
  /\ unhandled = ConstructError(cfg.web_modes[SetMin({i \in 1..Len(cfg.web_modes) :
                                                      ~Constructs(cfg.web_modes[i])})])
  /\ ops = 0
  /\ DialogClosed
  /\ fetch_thread = NoThread
  /\ workers = [w \in WorkerIds |-> Unstarted]
  /\ ui_queue = <<>>
  /\ current_records = {}
  /\ tree = {}
  /\ tree_source = NoThread
  /\ handled = {}
  /\ require_category_selection = FALSE
  /\ selected_category = None
  /\ available_categories = <<>>
  /\ connection_label = NotConnected

DefaultPatterns == {PatTid, PatStar, PatDot}
DefaultTemplates == {TplAbsent, TplBlank, TplSpace}

\* The program started on config.json holding one rule whose template is
\* left out, empty or blank.
InitDefault ==
  \E p \in DefaultPatterns, t \in DefaultTemplates :
    LET cfg == [web_modes |-> <<ModeDict("R", p, t, <<>>, NoCategories)>>,
                active_web_mode |-> None]
    IN IF Constructs(cfg.web_modes[1])
       THEN MainInit(cfg) /\ Loaded(ResolveRecords)
       ELSE Crashed(cfg)

\* Every comment resolved under a rule without a template of its own.
SpecDefault == InitDefault /\ [][NextResolve]_vars

\* ------------------------------------------- construction on bounded inputs

StartupPatterns == {PatTid, PatDot, PatBad}
StartupDicts ==
  {ModeDict(n, p, TplTid, <<>>, NoCategories) : n \in WindowNames, p \in StartupPatterns}
StartupModeLists == UNION {[1..n -> StartupDicts] : n \in 1..MaxModes}

\* The position of the first rule definition that does not construct, 0 when
\* all do: the list comprehension stops there.
FirstFailing(dicts) ==
  LET bad == {i \in 1..Len(dicts) : ~Constructs(dicts[i])}
  IN IF bad = {} THEN 0 ELSE SetMin(bad)

\* The program started on config.json holding one or two rules, each with a
\* pattern that compiles or one that does not.
InitStartup ==
  \E dicts \in StartupModeLists :
    LET cfg == [web_modes |-> dicts, active_web_mode |-> None]
    IN IF FirstFailing(dicts) = 0
       THEN MainInit(cfg) /\ Loaded(ResolveRecords)
       ELSE Crashed(cfg)

\* Every comment resolved in the windows that came up.
SpecStartup == InitStartup /\ [][NextResolve]_vars

\* ------------------------------------------- the active rule on bounded inputs

ActiveNames == {"A", "B"}
ActiveRules == {<<PatTid, TplTid>>, <<PatDot, TplHost>>, <<PatTid, TplAuto>>,
                <<PatStar, TplValue>>}
ActiveDicts ==
  {ModeDict(n, pt[1], pt[2], <<>>, NoCategories) : n \in ActiveNames, pt \in ActiveRules}
ActiveModeLists == UNION {[1..n -> ActiveDicts] : n \in 0..MaxModes}

InitActive ==
  \E dicts \in ActiveModeLists, active \in WindowActives :
    /\ MainInit([web_modes |-> dicts, active_web_mode |-> active])
    /\ Loaded(ResolveRecords)

\* Every comment resolved under every bounded rule list and active name.
SpecActive == InitActive /\ [][NextResolve]_vars

\* ------------------------------------------------ the resolver: properties

\* The comment of the resolution that has run.
Asked == selected.comment

\* Rule number i of the list, alone, on the comment that was resolved.
Alone(i) == ModeResolve(web_modes[i], Asked)

\* The match of rule i's pattern in the trimmed comment.
MatchOf(i) == Search(web_modes[i].regex, Strip(Asked))

\* The placeholder names of a template.
FieldsOf(template) ==
  {template[j].v : j \in {n \in 1..Len(template) : template[n].k = "field"}}

\* A template of literal text and {name} placeholders only.
WellFormed(template) ==
  \A j \in 1..Len(template) : template[j].k \in {"lit", "field"}

\* The text of the match a placeholder stands for: the whole match for
\* value, the group's capture (empty when it took no part) for a group.
TextOf(i, name) ==
  IF name = "value" THEN Group0(Strip(Asked), MatchOf(i))
  ELSE IF name \in GroupNames(web_modes[i].regex)
       THEN GroupOf(web_modes[i].regex, MatchOf(i), name).txt
       ELSE <<>>

RECURSIVE SubstFrom(_, _, _)

\* Rule i's template from token j on with every placeholder replaced by
\* the text of the match it stands for.
SubstFrom(i, template, j) ==
  IF j > Len(template) THEN <<>>
  ELSE (IF template[j].k = "lit" THEN <<template[j].v>> ELSE TextOf(i, template[j].v))
       \o SubstFrom(i, template, j + 1)

Substituted(i) == SubstFrom(i, web_modes[i].template, 1)

\* C1 as stated: with a list of two rules that both match the comment and
\* both expand their templates, the first rule wins: its URL is loaded and
\* it is the winning rule (the list with the two swapped is itself a list of
\* the specification, so the second half of the claim is the same formula);
\* and in any list no rule after one that expanded is the winner.
C1_FirstOfTwoWins ==
  selected.present =>
    /\ (Len(web_modes) = 2 /\ Alone(1).kind = "str" /\ Alone(2).kind = "str") =>
         /\ web_view.kind = "page"
         /\ web_view.url = Alone(1).s
         /\ Resolve(Asked, web_modes).pos = 1
    /\ \A i \in 1..Len(web_modes) :
         (Alone(i).kind = "str" /\ Resolve(Asked, web_modes).kind = "found")
           => Resolve(Asked, web_modes).pos <= i

\* C1 amended: with a list of two rules that both match the comment and both
\* expand their templates to a non-empty URL, the first rule wins, whichever
\* of the two orders the list has; and in any list no rule after one that
\* produced a non-empty URL is the winner.
C1_FirstNonEmptyOfTwoWins ==
  selected.present =>
    /\ (/\ Len(web_modes) = 2
        /\ Alone(1).kind = "str" /\ Alone(1).s # <<>>
        /\ Alone(2).kind = "str" /\ Alone(2).s # <<>>) =>
         /\ web_view.kind = "page"
         /\ web_view.url = Alone(1).s
         /\ Resolve(Asked, web_modes).pos = 1
         /\ Resolve(Asked, <<web_modes[2], web_modes[1]>>).url = Alone(2).s
         /\ Resolve(Asked, <<web_modes[2], web_modes[1]>>).pos = 1
    /\ \A i \in 1..Len(web_modes) :
         (/\ Alone(i).kind = "str" /\ Alone(i).s # <<>>
          /\ Resolve(Asked, web_modes).kind = "found")
           => Resolve(Asked, web_modes).pos <= i

\* Two rules that resolve the comment to different non-empty URLs were drawn
\* and the comment was resolved.
C1_Witness ==
  /\ selected.present
  /\ Len(web_modes) = 2
  /\ Alone(1).kind = "str" /\ Alone(1).s # <<>>
  /\ Alone(2).kind = "str" /\ Alone(2).s # <<>>
  /\ Alone(1).s # Alone(2).s
  /\ web_view.kind = "page"

\* Rule i matches the comment and can fill in its own template.
Expands(i) ==
  /\ Asked # <<>>
  /\ MatchOf(i).ok
  /\ WellFormed(web_modes[i].template)
  /\ FieldsOf(web_modes[i].template)
       \subseteq DOMAIN Context(web_modes[i].regex, Strip(Asked), MatchOf(i))

\* Rule i matches the comment and its template names a placeholder that the
\* context of the match does not hold.
LacksPlaceholder(i) ==
  /\ Asked # <<>>
  /\ MatchOf(i).ok
  /\ ~(FieldsOf(web_modes[i].template)
         \subseteq DOMAIN Context(web_modes[i].regex, Strip(Asked), MatchOf(i)))

\* C2: when the first rule matches the comment but its template references a
\* placeholder that is not in the match context, resolution is not aborted
\* and its result is the URL of the first later rule that matches and
\* expands, or no-match when there is none.
C2_FallthroughOnTemplateFailure ==
  (selected.present /\ web_modes # <<>> /\ LacksPlaceholder(1)) =>
    LET later == {i \in 2..Len(web_modes) : Expands(i)}
    IN /\ unhandled = ""
       /\ IF later = {} THEN web_view.kind = "nomatch"
          ELSE web_view.kind = "page" /\ web_view.url = Substituted(SetMin(later))

\* C3: a comment that is empty or only whitespace resolves to no URL
\* whatever the rule list holds: no page is loaded for it.
C3_BlankCommentNeverMatches ==
  (selected.present /\ Strip(Asked) = <<>>) => web_view.kind # "page"

\* C4: resolution never raises: no exception leaves the resolution of any
\* comment under any list of rules whose patterns compiled.
C4_ResolutionNeverRaises == unhandled = ""

\* C5 as stated: a rule alone, whose template is literal text and
\* placeholders that are value or names of its pattern's groups, resolves
\* every comment its pattern matches to the template with each placeholder
\* replaced by the text of the match, also when a referenced group took no
\* part in the match or captured nothing.
C5_TemplateSubstitution ==
  (/\ selected.present
   /\ Len(web_modes) = 1
   /\ WellFormed(web_modes[1].template)
   /\ FieldsOf(web_modes[1].template) \subseteq {"value"} \cup GroupNames(web_modes[1].regex)
   /\ Search(web_modes[1].regex, Asked).ok) =>
    /\ web_view.kind = "page"
    /\ web_view.url = Substituted(1)

\* C5 amended: such a rule alone resolves every comment that has some
\* non-whitespace content and whose trimmed text its pattern matches to the
\* template with each placeholder replaced by the text of the match,
\* provided every group the template references took part in the match with
\* a non-empty capture and the URL so made is not empty.
C5_TemplateSubstitutionOfPresentGroups ==
  (/\ selected.present
   /\ Len(web_modes) = 1
   /\ Strip(Asked) # <<>>
   /\ WellFormed(web_modes[1].template)
   /\ FieldsOf(web_modes[1].template) \subseteq {"value"} \cup GroupNames(web_modes[1].regex)
   /\ MatchOf(1).ok
   /\ \A g \in FieldsOf(web_modes[1].template) \ {"value"} : TextOf(1, g) # <<>>
   /\ Substituted(1) # <<>>) =>
    /\ web_view.kind = "page"
    /\ web_view.url = Substituted(1)

\* A rule alone resolved a comment with text around the match into a URL
\* made of literal text and a captured group.
C5_Witness ==
  /\ selected.present
  /\ Len(web_modes) = 1
  /\ web_modes[1].template = TplTid
  /\ MatchOf(1).ok
  /\ Group0(Strip(Asked), MatchOf(1)) # Strip(Asked)
  /\ web_view.kind = "page"
  /\ web_view.url = <<"https://x/", "1">>

\* -------------------------------------------------- the window: properties

\* The effective order of the window's rules under its active name.
Effective == EffectiveModes(web_modes, active_mode_name)

\* The positions of the rules the active name names.
ActiveHits ==
  IF active_mode_name = None \/ active_mode_name = "" THEN {}
  ELSE {i \in 1..Len(web_modes) : web_modes[i].name = active_mode_name}

\* Whether rule w was built from definition d, field by field.
BuiltFrom(w, d) ==
  /\ w.name = d.name /\ w.pattern = d.pattern /\ w.template = d.template
  /\ w.description = d.description /\ w.cookie = d.cookie
  /\ w.categories = (IF d.categories.present THEN d.categories.list ELSE <<>>)

\* C6: when the active name names exactly one rule of the store, the
\* effective order has the store's length, begins with that rule, and
\* continues with all the other rules in their original relative order.
C6_ActiveRuleMovesToFront ==
  Cardinality(ActiveHits) = 1 =>
    LET k == SetMin(ActiveHits)
    IN /\ Len(Effective) = Len(web_modes)
       /\ Effective[1] = web_modes[k]
       /\ \A j \in 2..Len(web_modes) :
            Effective[j] = web_modes[IF j - 1 < k THEN j - 1 ELSE j]

\* A torrent was resolved with the last of three rules active, behind two
\* different rules of another name.
C6_Witness ==
  /\ selected.present /\ web_view.kind = "page"
  /\ Len(web_modes) = 3 /\ ActiveHits = {3}
  /\ web_modes[1] # web_modes[2]
  /\ Effective = <<web_modes[3], web_modes[1], web_modes[2]>>

\* C7: a store built from N rule definitions, read back through the
\* effective order with the active name unset or naming no rule, gives the
\* same N rules in the order of the definitions, and the store is still the
\* one that was built once resolutions have read it.
C7_StoreOrderRoundTrip ==
  ActiveHits = {} =>
    /\ Len(Effective) = Len(config.web_modes)
    /\ \A i \in 1..Len(config.web_modes) : BuiltFrom(Effective[i], config.web_modes[i])
    /\ Len(web_modes) = Len(config.web_modes)
    /\ \A i \in 1..Len(config.web_modes) : BuiltFrom(web_modes[i], config.web_modes[i])

\* A torrent was resolved against three rules, not all alike, with an
\* active name that no rule has.
C7_Witness ==
  /\ selected.present /\ web_view.kind = "page"
  /\ active_mode_name = "Z"
  /\ Len(web_modes) = 3 /\ web_modes[1] # web_modes[2] /\ web_modes[2] # web_modes[3]

\* The rule whose URL the view shows for the selected torrent.
Winner == Effective[ResolveCommentUrl(web_modes, active_mode_name, selected.comment).pos]

\* C8: a rule with a non-empty categories allow-list never wins the
\* resolution for a torrent whose category is not in the list.
C8_CategoriesRestrictWinner ==
  (selected.present /\ web_view.kind = "page") =>
    \/ Winner.categories = <<>>
    \/ \E i \in 1..Len(Winner.categories) : Winner.categories[i] = selected.category

\* ------------------------------------------------- the program: properties

\* The rule list a confirm would validate: the editor's, the form applied.
Confirmed == ApplyCurrentModeChanges(Ed).modes

\* C9: while the edited rule list holds a pattern that does not compile, no
\* step, a confirm included, saves anything: the configuration document, the
\* saved file, the main window's rule list and its active rule name stay
\* what they were when the settings dialog was opened.
C9_InvalidPatternBlocksSave ==
  [][(dialog_open /\ \E i \in 1..Len(Confirmed) : ~Compile(Confirmed[i].pattern).ok) =>
       /\ UNCHANGED <<config, saved, web_modes, active_mode_name>>
       /\ config' = dlg_config /\ saved' = dlg_config
       /\ active_mode_name' = dlg_config.active_web_mode
       /\ Len(web_modes') = Len(dlg_config.web_modes)
       /\ \A i \in 1..Len(dlg_config.web_modes) :
            BuiltFrom(web_modes'[i], dlg_config.web_modes[i])]_vars

\* A confirm was refused for a pattern that does not compile, and the
\* dialog is still open on it.
C9_Witness ==
  /\ dialog_open /\ warning.kind = "invalid"
  /\ \E i \in 1..Len(dlg_modes) : dlg_modes[i].pattern = PatBad

\* C10: a step taken while the settings dialog is open either leaves the
\* configuration, the saved file, the rule list and the active name as they
\* are, or is the successful confirm, after which all four are the edited
\* document's, rule list and active name together.
C10_EditIsolationAndAtomicReplacement ==
  [][dialog_open =>
       \/ UNCHANGED <<config, saved, web_modes, active_mode_name>>
       \/ /\ ~dialog_open'
          /\ ValidateModes(Confirmed).kind = ""
          /\ config' = AcceptedConfig(Confirmed, default_mode_combo)
          /\ saved' = config'
          /\ active_mode_name' = config'.active_web_mode
          /\ Len(web_modes') = Len(config'.web_modes)
          /\ \A i \in 1..Len(config'.web_modes) :
               BuiltFrom(web_modes'[i], config'.web_modes[i])]_vars

\* A confirm went through that changed a rule and the active name at once:
\* the window started with rule A on its own template and no active name.
C10_Witness ==
  /\ ~dialog_open /\ unhandled = ""
  /\ Len(web_modes) = 1 /\ web_modes[1].name = "A"
  /\ web_modes[1].template = TplValue
  /\ active_mode_name = "A"
  /\ config = [web_modes |-> <<ModeDict("A", PatTid, TplValue, <<>>, NoCategories)>>,
               active_web_mode |-> "A"]

\* --------------------------------------------------- the fetch: properties

\* C11: in every reachable state at most one fetch worker is in its fetch,
\* whatever the order of refresh requests, worker completions and
\* deliveries of their signals (a worker that has emitted its signal and
\* is only returning from run() is not counted).
C11_AtMostOneFetchInFlight ==
  Cardinality({w \in WorkerIds : workers[w].state = "running"}) <= 1

\* C12: a worker that has not got past fetch_torrents has emitted nothing;
\* one that has got past it has emitted exactly one signal, failed when
\* fetch_torrents raised and data_ready when it did not.
C12_ExactlyOneOutcome ==
  \A w \in WorkerIds :
    IF workers[w].state \in {"unstarted", "running"}
    THEN workers[w].data_ready = 0 /\ workers[w].failed = 0
    ELSE /\ workers[w].data_ready + workers[w].failed = 1
         /\ workers[w].failed = 1 <=> workers[w].raised

\* One worker has finished after a failed fetch and another after a good one.
C12_Witness ==
  \E v, w \in WorkerIds :
    /\ workers[v].state = "finished" /\ workers[v].raised /\ workers[v].failed = 1
    /\ workers[w].state = "finished" /\ ~workers[w].raised /\ workers[w].data_ready = 1

\* ------------------------------------------------- the cookies: properties

\* The ends of the segments of a cookie string: before its first character,
\* at every ";" and behind its last character.
Bounds(raw) == {0, Len(raw) + 1} \cup {i \in 1..Len(raw) : raw[i] = ";"}

\* The segment of raw that begins behind the bound b, trimmed.
SegmentAt(raw, b) ==
  Strip(SubSeq(raw, b + 1, SetMin({e \in Bounds(raw) : e > b}) - 1))

HasEquals(seg) == \E i \in 1..Len(seg) : seg[i] = "="

\* The bounds that begin a segment which is kept: not empty, and with "=".
KeptBounds(raw) ==
  {b \in Bounds(raw) \ {Len(raw) + 1} : HasEquals(SegmentAt(raw, b))}

\* The k-th kept segment of raw.
KeptSegment(raw, k) ==
  SegmentAt(raw, CHOOSE b \in KeptBounds(raw) :
                   Cardinality({a \in KeptBounds(raw) : a <= b}) = k)

FirstEquals(seg) == SetMin({i \in 1..Len(seg) : seg[i] = "="})

\* The cookies the last resolution handed to the browser, in order.
CookiesSet == SelectSeq(browser_calls, LAMBDA c : c.op = "setCookie")

\* Rule A has won the selected torrent: its cookie string was parsed.
ParsedA ==
  /\ selected.present /\ web_view.kind = "page"
  /\ web_view.url = <<"https://x/", "1">>

\* C13 as stated: the winning rule's cookie string gives one pair per kept
\* segment, in segment order, the name being what the trimmed segment has
\* before its first "=" and the value what it has behind it.
C13_CookieParsing ==
  ParsedA =>
    LET raw == web_modes[1].cookie
    IN /\ Len(CookiesSet) = Cardinality(KeptBounds(raw))
       /\ \A k \in 1..Len(CookiesSet) :
            LET seg == KeptSegment(raw, k)
            IN /\ CookiesSet[k].name = SubSeq(seg, 1, FirstEquals(seg) - 1)
               /\ CookiesSet[k].value = SubSeq(seg, FirstEquals(seg) + 1, Len(seg))

\* C13, names and values trimmed: one pair per kept segment, in segment
\* order, the name being what the segment has before its first "=" and the
\* value what it has behind it, each with surrounding whitespace removed.
C13_CookieParsingTrimmed ==
  ParsedA =>
    LET raw == web_modes[1].cookie
    IN /\ Len(CookiesSet) = Cardinality(KeptBounds(raw))
       /\ \A k \in 1..Len(CookiesSet) :
            LET seg == KeptSegment(raw, k)
            IN /\ CookiesSet[k].name = Strip(SubSeq(seg, 1, FirstEquals(seg) - 1))
               /\ CookiesSet[k].value = Strip(SubSeq(seg, FirstEquals(seg) + 1, Len(seg)))

\* "uid=1; passkey=abc;" was parsed, into (uid, 1) and (passkey, abc).
C13_Witness ==
  /\ ParsedA
  /\ web_modes[1].cookie = CookieUidPasskey
  /\ Len(CookiesSet) = 2
  /\ CookiesSet[1].name = <<"uid">> /\ CookiesSet[1].value = <<"1">>
  /\ CookiesSet[2].name = <<"passkey">> /\ CookiesSet[2].value = <<"abc">>

\* C14: when a resolution succeeds, the browser gets the winning rule's
\* cookies, each for the host of the resolved URL, then the load of that
\* URL and nothing else; no cookies when the winner's cookie string is
\* empty, and none of a rule that did not win.
C14_CookiesBeforeLoadWinnerOnly ==
  (selected.present /\ web_view.kind = "page") =>
    LET n == Len(browser_calls)
        pairs == ParseCookie(Winner.cookie)
    IN /\ n = Len(pairs) + 1
       /\ browser_calls[n].op = "load" /\ browser_calls[n].url = web_view.url
       /\ \A i \in 1..(n - 1) :
            /\ browser_calls[i].op = "setCookie"
            /\ browser_calls[i].name = pairs[i].name
            /\ browser_calls[i].value = pairs[i].value
            /\ browser_calls[i].domain = UrlHost(web_view.url)
       /\ Strip(Winner.cookie) = <<>> => n = 1

\* Rule B has won behind rule A, whose own cookie string holds a cookie:
\* the browser got B's cookie and the load, not A's.
C14_Witness ==
  /\ selected.present /\ web_view.kind = "page"
  /\ web_view.url = <<"https://x/", "a">>
  /\ web_modes[1].cookie = <<"u", "=", "1">>
  /\ browser_calls = <<Call("setCookie", <<"p">>, <<"2">>, "x", <<>>),
                       Call("load", <<>>, <<>>, "", <<"https://x/", "a">>)>>

\* ------------------------------------------------ rule names: properties

\* C15: every rule of the saved list has a non-empty name, and no two rules
\* of it have the same name.
C15_SavedNamesUniqueNonEmpty ==
  \A i, j \in 1..Len(saved.web_modes) :
    /\ saved.web_modes[i].name # ""
    /\ saved.web_modes[i].name = saved.web_modes[j].name => i = j

\* ------------------------------------------- template default: properties

\* What the one rule of the configuration resolves the selected comment to
\* when its template is {value}.
AsValueRule ==
  Resolve(selected.comment,
          <<MakeWebMode([config.web_modes[1] EXCEPT !.template = TplValue])>>)

\* C16: a rule whose template is left out, empty or blank constructs, and
\* resolves every comment as the same rule with template {value} does.
C16_TemplateDefault ==
  /\ unhandled = ""
  /\ selected.present =>
       IF AsValueRule.kind = "found"
       THEN web_view.kind = "page" /\ web_view.url = AsValueRule.url
       ELSE web_view.kind = "nomatch"

\* ------------------------------------------- the active rule: properties

\* What the selected comment resolves to with no active name set.
WithoutActive == ResolveCommentUrl(web_modes, None, Asked)

\* C17: when every rule that carries the active name yields no URL for the
\* comment, the resolution ends as it does with no active name set: the
\* same URL from the same rule, or no match.
C17_ActiveOnlyChangesPriority ==
  (/\ selected.present
   /\ \A i \in ActiveHits : Resolve(Asked, <<web_modes[i]>>).kind # "found") =>
    IF WithoutActive.kind = "found"
    THEN /\ unhandled = ""
         /\ web_view.kind = "page" /\ web_view.url = WithoutActive.url
         /\ Winner = web_modes[WithoutActive.pos]
    ELSE IF WithoutActive.kind = "none"
         THEN unhandled = "" /\ web_view.kind = "nomatch"
         ELSE unhandled = WithoutActive.exc

\* ---------------------------------------- the resolver: further properties

\* C18: a rule alone that matches the comment fails to expand a template
\* of literal text and named placeholders as soon as the template names a group
\* that took no part in the match or captured nothing, and otherwise
\* expands it with value standing for the whole match, even an empty one.
C18_ContextOmitsAbsentGroups ==
  (/\ selected.present
   /\ Len(web_modes) = 1
   /\ Asked # <<>>
   /\ MatchOf(1).ok
   /\ web_modes[1].template # <<>>
   /\ WellFormed(web_modes[1].template)
   /\ \A f \in FieldsOf(web_modes[1].template) : ~IsPositional(f)) =>
    /\ unhandled = ""
    /\ IF \E g \in FieldsOf(web_modes[1].template) \ {"value"} : TextOf(1, g) = <<>>
       THEN web_view.kind = "nomatch"
       ELSE IF Substituted(1) = <<>>
            THEN web_view.kind = "nomatch"
            ELSE web_view.kind = "page" /\ web_view.url = Substituted(1)

\* A rule alone matched the comment with its group taking no part, and its
\* template, which names the group, was not expanded.
C18_Witness ==
  /\ selected.present
  /\ Len(web_modes) = 1
  /\ web_modes[1].pattern = PatOpt /\ web_modes[1].template = TplTid
  /\ Asked = <<"a">>
  /\ MatchOf(1).ok /\ TextOf(1, "tid") = <<>>
  /\ web_view.kind = "nomatch"

OfTrimmed == Resolve(Strip(Asked), web_modes)

\* C20: a comment with some non-whitespace content resolves as its trimmed
\* text does, and a URL that is the whole match has no whitespace of the
\* comment at either end.
C20_TrimInvariance ==
  (selected.present /\ Strip(Asked) # <<>>) =>
    /\ IF OfTrimmed.kind = "found"
       THEN unhandled = "" /\ web_view.kind = "page" /\ web_view.url = OfTrimmed.url
       ELSE IF OfTrimmed.kind = "none"
            THEN unhandled = "" /\ web_view.kind = "nomatch"
            ELSE unhandled = OfTrimmed.exc
    /\ (/\ web_view.kind = "page"
        /\ Resolve(Asked, web_modes).kind = "found"
        /\ web_modes[Resolve(Asked, web_modes).pos].template = TplValue) =>
         /\ web_view.url[1] \notin Whitespace
         /\ web_view.url[Len(web_view.url)] \notin Whitespace

\* A comment with whitespace on both sides was resolved by a rule that
\* matches any text, to the text in between.
C20_Witness ==
  /\ selected.present
  /\ Asked = <<" ", "1", " ">>
  /\ Len(web_modes) = 1
  /\ web_modes[1].pattern = PatDot /\ web_modes[1].template = TplValue
  /\ web_view.kind = "page" /\ web_view.url = <<"1">>

\* ------------------------------------------- duplicate names: properties

\* C21: when two or more rules carry the active name, the effective order
\* begins with the first of them and continues with every other rule, the
\* later rules of that name included, in their original relative order.
C21_FirstOfDuplicatesMovesToFront ==
  Cardinality(ActiveHits) >= 2 =>
    LET k == SetMin(ActiveHits)
    IN /\ Len(Effective) = Len(web_modes)
       /\ Effective[1] = web_modes[k]
       /\ \A j \in 2..Len(web_modes) :
            Effective[j] = web_modes[IF j - 1 < k THEN j - 1 ELSE j]

\* The j-th smallest position of a set of positions.
NthOf(S, j) == CHOOSE x \in S : Cardinality({y \in S : y < x}) = j - 1

\* The positions of the rules the active name does not name.
ActiveMisses == (1..Len(web_modes)) \ ActiveHits

\* C21 (as the code has it): when two or more rules carry the active name,
\* the effective order has the store's length, begins with every rule of
\* that name in their original relative order, and continues with every
\* other rule in their original relative order.
C21_AllDuplicatesMoveToFront ==
  Cardinality(ActiveHits) >= 2 =>
    LET n == Cardinality(ActiveHits)
    IN /\ Len(Effective) = Len(web_modes)
       /\ \A j \in 1..n : Effective[j] = web_modes[NthOf(ActiveHits, j)]
       /\ \A j \in (n + 1)..Len(web_modes) :
            Effective[j] = web_modes[NthOf(ActiveMisses, j - n)]

\* A torrent was resolved with the first and the third of three rules
\* carrying the active name, two different rules, around a rule of another
\* name: the third rule stands before the second in the effective order.
C21_Witness ==
  /\ selected.present /\ web_view.kind = "page"
  /\ Len(web_modes) = 3 /\ ActiveHits = {1, 3}
  /\ web_modes[1] # web_modes[3]
  /\ Effective = <<web_modes[1], web_modes[3], web_modes[2]>>

\* ------------------------------------------- construction: properties

\* Whether building the rule list from config.json failed.
ConstructionFailed == FirstFailing(config.web_modes) # 0

\* The rule definition the construction failed on.
Offending == config.web_modes[FirstFailing(config.web_modes)]

\* C22: when a pattern fails to compile, the construction fails with an
\* error that has the offending rule's name and the compiler's reason, and
\* no rule list is assigned: neither a prefix of the rules nor any other
\* list replaces what was installed before (at startup, nothing).
C22_ConstructionAllOrNothing ==
  ConstructionFailed =>
    /\ unhandled = "re.error"
    /\ CompilerReason \in ConstructErrorTexts(Offending)
    /\ Offending.name \in ConstructErrorTexts(Offending)
    /\ web_modes = <<>>

\* C24: the saved active rule name is unset or the name of a rule of the
\* saved rule list.
C24_NoDanglingActiveName ==
  \/ saved.active_web_mode = None
  \/ \E i \in 1..Len(saved.web_modes) : saved.web_modes[i].name = saved.active_web_mode

\* ------------------------------------------- categories and fetches: properties

\* No worker is fetching or winding down and no signal is queued.
NoFetchInFlight ==
  /\ \A w \in WorkerIds : workers[w].state \in {"unstarted", "finished"}
  /\ ui_queue = <<>>

\* C23: once no fetch is in flight and a fetch result is displayed, the
\* displayed records are those of a fetch issued for the currently selected
\* category.
C23_DisplayFollowsSelectedCategory ==
  (unhandled = "" /\ NoFetchInFlight /\ tree_source # NoThread) =>
    workers[tree_source].categories = GetSelectedCategories(selected_category)

\* C25: every started fetch eventually completes and has its completion or
\* failure signal handled by the window, with the in-flight marker no longer
\* naming it, so that a later refresh request is let past the guard.
C25_RefreshNeverBlockedForever ==
  \A w \in WorkerIds :
    (workers[w].state = "running") ~>
      (workers[w].state = "finished" /\ w \in handled /\ fetch_thread # w)

\* A refresh request or a category-selector change handled while category
\* selection is required and leaves no category selected.
GateStep ==
  /\ require_category_selection
  /\ selected_category' = None
  /\ RefreshAction \/ \E i \in 1..(Len(ServerCategories) + 2) : OnCategorySelectorChanged(i)

\* No worker is started by the step.
NoWorkerStarted == workers' = workers /\ fetch_thread' = fetch_thread

====
